---- MODULE Spec2Model ----
(***************************************************************************)
(* Gesture-driven particle universe (src/script.js, the current version    *)
(* that starts at line 667).  The pose callback onResults writes the       *)
(* control state; the frame callback animate reads it and evolves the      *)
(* particle system; the UI handlers change template, tint and lock flag.   *)
(*                                                                         *)
(* Numbers.  The program computes in IEEE doubles; the model computes in   *)
(* fixed point with floor rounding:                                        *)
(*   - normalised quantities (landmark coordinates, handDistance, scale,   *)
(*     tint channels, blend factors) and angles in units of 1/Unit,        *)
(*   - world coordinates in units of 1/WorldUnit.                          *)
(***************************************************************************)
EXTENDS Integers, Sequences, FiniteSets, TLC

VARIABLES
    \* ---- control state written by onResults (script.js 694-713)
    handDistance,          \* normalised inter-hand distance
    handGesture,           \* "open" | "closed" | "neutral" | "peace"
    targetHandPosition,    \* <<x, y, z>> world
    targetHandRotationZ,   \* roll target
    targetHandRotationY,   \* yaw target
    gestureHistory,        \* sequence of raw samples, newest last
    lockOnExit,            \* UI flag "lock on exit"
    \* ---- UI state
    currentTemplate,       \* key into the templates registry
    solarSystemEnabled,
    isMouseDown,
    inScene,               \* whether the scene holds the particles object
    targetRotationX,       \* mouse-drag rotation targets
    targetRotationY,
    \* ---- particle system, owned by the frame loop
    time,                  \* animation clock
    rotation,              \* particles.rotation <<x, y, z>>
    scale,                 \* particles.scale (uniform)
    position,              \* particles.position <<x, y, z>>
    tint,                  \* material.color <<r, g, b>>
    size,                  \* material.size
    positions,             \* live position buffer: one <<x, y, z>> per particle
    basePositions,         \* the shape generated at the last template change
    spherePositions,       \* the compressed sphere sampled at the last template change
    colors,                \* colour attribute: one <<r, g, b>> per particle
    coreScale,             \* sunCore.scale (uniform)
    corePosition,          \* sunCore.position
    coreRotation,          \* sunCore.rotation
    targetScale,           \* animate's local targetScale in the last frame (0: none yet)
    colorInputs,           \* number of colour-picker inputs so far
    \* ---- record of the last callback (history variables, not program state)
    lastOp,                \* the callback (onResults or animate) that ran last
    thrown,                \* whether the last handler ended by an uncaught exception
    lastObs,               \* kind of the last observation delivered
    obsExt,                \* finger states of the hand of the last one-hand observation
    detectedGesture,       \* onResults' local detectedGesture (raw sample), or "none"
    scanned,               \* history as scanned by the last smoothGesture call, <<>> if none
    obsLock,               \* lockOnExit as the last onResults read it
    prevGesture,           \* handGesture before the last onResults
    prevHistLen,           \* length of gestureHistory before the last onResults
    ctlSeen                \* the control state as the last onResults left it

ctlVars == <<handDistance, handGesture, targetHandPosition, targetHandRotationZ,
             targetHandRotationY, gestureHistory>>
obsVars == <<lastObs, obsExt, detectedGesture, scanned, obsLock, prevGesture, prevHistLen,
             ctlSeen>>
uiVars == <<currentTemplate, solarSystemEnabled, isMouseDown, targetRotationX, targetRotationY>>
transformVars == <<rotation, scale, position>>
materialVars == <<tint, size>>
bufferVars == <<positions, basePositions, spherePositions, colors>>
coreVars == <<coreScale, corePosition, coreRotation>>
frameVars == <<time, transformVars, materialVars, bufferVars, coreVars, targetScale>>
vars == <<ctlVars, lockOnExit, lastOp, thrown, obsVars, uiVars, inScene, frameVars,
          colorInputs>>

----------------------------------------------------------------------------
(* Fixed point *)

Unit == 10 * 1000
WorldUnit == 10 * 10

\* a * f with f a fraction in 1/Unit
Frac(a, f) == (a * f) \div Unit

\* THREE.Vector3.lerp / Color.lerp on one component: cur += (target - cur) * alpha
Lerp(cur, target, alpha) == cur + Frac(target - cur, alpha)

Max(a, b) == IF a >= b THEN a ELSE b
Min(a, b) == IF a <= b THEN a ELSE b

RECURSIVE SqrtSearch(_, _, _)
\* binary search for the floor of the root of n in lo..hi; the singleton sets
\* bind the bounds to their values before the next level uses them
SqrtSearch(n, lo, hi) ==
    CHOOSE r \in { IF l >= h THEN l
                   ELSE LET mid == (l + h + 1) \div 2
                        IN  IF mid * mid <= n THEN SqrtSearch(n, mid, h)
                                              ELSE SqrtSearch(n, l, mid - 1)
                   : l \in {lo}, h \in {hi} } : TRUE

\* Math.sqrt on a square of fixed-point numbers: floor of the root
Sqrt(n) == CHOOSE r \in {SqrtSearch(m, 0, 2 * Unit) : m \in {n}} : TRUE

----------------------------------------------------------------------------
(* Program constants *)

gestureHistorySize == 5
positionScale == 200
MIN_DIST == 500
MAX_DIST == 7000
NeutralDistance == 5000
InitialHandDistance == 10000
YawSensitivity == 8
ReturnSmoothing == 1000

Gestures == {"open", "closed", "neutral", "peace"}

\* Object.entries(counts): insertion order of the counts literal
GestureOrder == <<"open", "closed", "neutral", "peace">>

----------------------------------------------------------------------------
(* Hands.  A hand is 21 landmarks [x, y, z]; index 0 is the wrist.         *)

Fingers == {"thumb", "index", "middle", "ring", "pinky"}

TipIndex == [thumb |-> 4, index |-> 8, middle |-> 12, ring |-> 16, pinky |-> 20]
PipIndex == [thumb |-> 3, index |-> 6, middle |-> 10, ring |-> 14, pinky |-> 18]

\* The landmark set of a hand described by: ext (finger -> extended?), curl
\* (how far below its joint a curled fingertip sits, 0 = level with it), wrist
\* <<x, y, z>>, knuckle (vector wrist -> middle-finger base), z5 and z17 (depth
\* of the index and pinky base knuckles).
Landmarks(h) ==
    [i \in 0..20 |->
        IF i = 0 THEN [x |-> h.wrist[1], y |-> h.wrist[2], z |-> h.wrist[3]]
        ELSE IF i = 9 THEN [x |-> h.wrist[1] + h.knuckle[1],
                            y |-> h.wrist[2] + h.knuckle[2], z |-> 0]
        ELSE IF i = 5 THEN [x |-> h.wrist[1], y |-> h.wrist[2] - 1000, z |-> h.z5]
        ELSE IF i = 17 THEN [x |-> h.wrist[1], y |-> h.wrist[2] - 1000, z |-> h.z17]
        ELSE IF \E f \in Fingers : PipIndex[f] = i
             THEN [x |-> h.wrist[1], y |-> h.wrist[2] - 2000, z |-> 0]
        ELSE IF \E f \in Fingers : TipIndex[f] = i
             THEN LET f == CHOOSE g \in Fingers : TipIndex[g] = i
                  IN  [x |-> h.wrist[1],
                       y |-> IF h.ext[f] THEN h.wrist[2] - 2500
                                         ELSE h.wrist[2] - 2000 + h.curl,
                       z |-> 0]
        ELSE [x |-> h.wrist[1], y |-> h.wrist[2] - 1500, z |-> 0]]

----------------------------------------------------------------------------
(* Gesture classifier *)

isFingerExtended(handLandmarks, tipIndex, pipIndex) ==
    handLandmarks[tipIndex].y < handLandmarks[pipIndex].y

\* a variant that tests for the open hand before the peace sign
detectGesture_OpenFirst(handLandmarks) ==
    LET indexExtended  == isFingerExtended(handLandmarks, 8, 6)
        middleExtended == isFingerExtended(handLandmarks, 12, 10)
        ringExtended   == isFingerExtended(handLandmarks, 16, 14)
        pinkyExtended  == isFingerExtended(handLandmarks, 20, 18)
        B(b) == IF b THEN 1 ELSE 0
        extendedFingers == B(indexExtended) + B(middleExtended)
                           + B(ringExtended) + B(pinkyExtended)
    IN  IF extendedFingers >= 3 THEN "open"
        ELSE IF indexExtended /\ middleExtended /\ ~ringExtended THEN "peace"
        ELSE IF extendedFingers <= 1 THEN "closed"
        ELSE "neutral"

detectGesture(handLandmarks) ==
    LET thumbExtended  == isFingerExtended(handLandmarks, 4, 3)
        indexExtended  == isFingerExtended(handLandmarks, 8, 6)
        middleExtended == isFingerExtended(handLandmarks, 12, 10)
        ringExtended   == isFingerExtended(handLandmarks, 16, 14)
        pinkyExtended  == isFingerExtended(handLandmarks, 20, 18)
        B(b) == IF b THEN 1 ELSE 0
        extendedFingers == B(indexExtended) + B(middleExtended)
                           + B(ringExtended) + B(pinkyExtended)
    IN  IF indexExtended /\ middleExtended /\ ~ringExtended THEN "peace"
        ELSE IF extendedFingers >= 3 THEN "open"
        ELSE IF extendedFingers <= 1 THEN "closed"
        ELSE "neutral"

\* counts[g] after the forEach
CountOf(history, g) == Cardinality({i \in 1..Len(history) : history[i] = g})

\* a variant of the scan that lets a later entry with an equal count win
RECURSIVE ScanCounts_LastMax(_, _, _, _)
ScanCounts_LastMax(history, k, maxCount, result) ==
    IF k > Len(GestureOrder) THEN result
    ELSE LET gesture == GestureOrder[k]
             count == CountOf(history, gesture)
         IN  IF count >= maxCount /\ count > 0
             THEN ScanCounts_LastMax(history, k + 1, count, gesture)
             ELSE ScanCounts_LastMax(history, k + 1, maxCount, result)

\* the for..of scan over Object.entries(counts), from entry k on
RECURSIVE ScanCounts(_, _, _, _)
ScanCounts(history, k, maxCount, result) ==
    IF k > Len(GestureOrder) THEN result
    ELSE LET gesture == GestureOrder[k]
             count == CountOf(history, gesture)
         IN  IF count > maxCount
             THEN ScanCounts(history, k + 1, count, gesture)
             ELSE ScanCounts(history, k + 1, maxCount, result)

\* a variant that drops the newest sample instead of the oldest when full
smoothGesture_DropsNewest(history, newGesture) ==
    LET pushed == Append(history, newGesture)
        kept == IF Len(pushed) > gestureHistorySize
                THEN SubSeq(pushed, 1, gestureHistorySize) ELSE pushed
    IN  [history |-> kept, result |-> ScanCounts(kept, 1, 0, "neutral")]

\* a variant without smoothing: the newest sample is the result
smoothGesture_ReturnsNewest(history, newGesture) ==
    LET pushed == Append(history, newGesture)
        kept == IF Len(pushed) > gestureHistorySize THEN Tail(pushed) ELSE pushed
    IN  [history |-> kept, result |-> newGesture]

\* a variant that answers neutral until the history is full
smoothGesture_NeedsFull(history, newGesture) ==
    LET pushed == Append(history, newGesture)
        kept == IF Len(pushed) > gestureHistorySize THEN Tail(pushed) ELSE pushed
    IN  [history |-> kept,
         result |-> IF Len(kept) < gestureHistorySize THEN "neutral"
                    ELSE ScanCounts(kept, 1, 0, "neutral")]

\* smoothGesture(newGesture) on history: the history it leaves and its result
smoothGesture(history, newGesture) ==
    LET pushed == Append(history, newGesture)
        kept == IF Len(pushed) > gestureHistorySize THEN Tail(pushed) ELSE pushed
    IN  [history |-> kept, result |-> ScanCounts(kept, 1, 0, "neutral")]

\* updateHandPosition: the wrist, centred and scaled into world units
updateHandPosition(handLandmarks) ==
    << ((handLandmarks[0].x - Unit \div 2) * positionScale * WorldUnit) \div Unit,
       ((Unit \div 2 - handLandmarks[0].y) * positionScale * WorldUnit) \div Unit,
       (handLandmarks[0].z * positionScale * WorldUnit) \div (2 * Unit) >>

Pi == 31416

\* Math.atan2(dy, dx) for the eight compass directions the hands of the model use
Atan2(dy, dx) ==
    IF dy = 0 /\ dx >= 0 THEN 0
    ELSE IF dy = 0 THEN Pi
    ELSE IF dx = 0 THEN (IF dy > 0 THEN Pi \div 2 ELSE -(Pi \div 2))
    ELSE IF dx > 0 THEN (IF dy > 0 THEN Pi \div 4 ELSE -(Pi \div 4))
    ELSE (IF dy > 0 THEN (3 * Pi) \div 4 ELSE -((3 * Pi) \div 4))

getHandRoll(handLandmarks) ==
    LET p1 == handLandmarks[0]
        p2 == handLandmarks[9]
    IN  Atan2(p2.y - p1.y, p2.x - p1.x) + Pi \div 2

getHandYaw(handLandmarks) ==
    (handLandmarks[5].z - handLandmarks[17].z) * YawSensitivity

----------------------------------------------------------------------------
(* onResults: the pose callback.  An observation is the record            *)
(* [defined, hands, landmarks]: defined says whether                       *)
(* results.multiHandLandmarks is there at all, landmarks is the sequence   *)
(* of landmark sets it holds and hands the descriptions they were built    *)
(* from.  missing[i] is the set of indices at which landmark set i has no  *)
(* landmark (the array is shorter, or holds undefined there): reading a    *)
(* coordinate of such a landmark throws a TypeError, which ends the        *)
(* handler at that point with the assignments made so far in place.        *)

NoLandmarks == [defined |-> FALSE, hands |-> <<>>, landmarks |-> <<>>, missing |-> <<>>]
Observed(hands) ==
    [defined |-> TRUE, hands |-> hands,
     landmarks |-> [i \in 1..Len(hands) |-> Landmarks(hands[i])],
     missing |-> [i \in 1..Len(hands) |-> {}]]

\* the hands with the landmarks at the indices missing[i] absent
Malformed(hands, missing) == [Observed(hands) EXCEPT !.missing = missing]

\* the landmark indices each function reads, in the order of the calls
DetectReads == {3, 4, 6, 8, 10, 12, 14, 16, 18, 20}
PositionReads == {0}
RollReads == {0, 9}
YawReads == {5, 17}
ReadIndices == DetectReads \cup PositionReads \cup RollReads \cup YawReads
NoExt == [f \in Fingers |-> FALSE]

\* a variant of the two-hand branch that forgets to reset the gesture
TwoHands_KeepsGesture(landmarks) ==
    LET wrist1 == landmarks[1][0]
        wrist2 == landmarks[2][0]
        dx == wrist1.x - wrist2.x
        dy == wrist1.y - wrist2.y
        distance == Sqrt(dx * dx + dy * dy)
    IN  /\ handDistance' =
               Max(0, Min(Unit, ((distance - MIN_DIST) * Unit) \div (MAX_DIST - MIN_DIST)))
        /\ targetHandPosition' = targetHandPosition
        /\ gestureHistory' = <<>>
        /\ UNCHANGED <<handGesture, targetHandRotationZ, targetHandRotationY>>
        /\ detectedGesture' = "none"
        /\ scanned' = <<>>

\* a variant of the two-hand branch that stores the ratio without clamping it
TwoHands_NoClamp(landmarks) ==
    LET wrist1 == landmarks[1][0]
        wrist2 == landmarks[2][0]
        dx == wrist1.x - wrist2.x
        dy == wrist1.y - wrist2.y
        distance == Sqrt(dx * dx + dy * dy)
        avgX == (wrist1.x + wrist2.x) \div 2
        avgY == (wrist1.y + wrist2.y) \div 2
        avgZ == (wrist1.z + wrist2.z) \div 2
    IN  /\ handDistance' = ((distance - MIN_DIST) * Unit) \div (MAX_DIST - MIN_DIST)
        /\ targetHandPosition' =
               << ((avgX - Unit \div 2) * positionScale * WorldUnit) \div Unit,
                  ((Unit \div 2 - avgY) * positionScale * WorldUnit) \div Unit,
                  (avgZ * positionScale * WorldUnit) \div (2 * Unit) >>
        /\ handGesture' = "neutral"
        /\ gestureHistory' = <<>>
        /\ UNCHANGED <<targetHandRotationZ, targetHandRotationY>>
        /\ detectedGesture' = "none"
        /\ scanned' = <<>>

\* two-hand branch (landmarks.length === 2)
TwoHands(landmarks) ==
    LET wrist1 == landmarks[1][0]
        wrist2 == landmarks[2][0]
        dx == wrist1.x - wrist2.x
        dy == wrist1.y - wrist2.y
        distance == Sqrt(dx * dx + dy * dy)
        avgX == (wrist1.x + wrist2.x) \div 2
        avgY == (wrist1.y + wrist2.y) \div 2
        avgZ == (wrist1.z + wrist2.z) \div 2
    IN  /\ handDistance' =
               Max(0, Min(Unit, ((distance - MIN_DIST) * Unit) \div (MAX_DIST - MIN_DIST)))
        /\ targetHandPosition' =
               << ((avgX - Unit \div 2) * positionScale * WorldUnit) \div Unit,
                  ((Unit \div 2 - avgY) * positionScale * WorldUnit) \div Unit,
                  (avgZ * positionScale * WorldUnit) \div (2 * Unit) >>
        /\ handGesture' = "neutral"
        /\ gestureHistory' = <<>>
        /\ UNCHANGED <<targetHandRotationZ, targetHandRotationY>>
        /\ detectedGesture' = "none"
        /\ scanned' = <<>>

\* one-hand branch (landmarks.length === 1)
OneHand(landmarks) ==
    LET hand == landmarks[1]
        detected == detectGesture(hand)
        smoothed == smoothGesture(gestureHistory, detected)
    IN  /\ handGesture' = smoothed.result
        /\ gestureHistory' = smoothed.history
        /\ targetHandPosition' = updateHandPosition(hand)
        /\ targetHandRotationZ' = -getHandRoll(hand)
        /\ targetHandRotationY' = getHandYaw(hand) * 2
        /\ handDistance' = NeutralDistance
        /\ detectedGesture' = detected
        /\ scanned' = smoothed.history

\* the handler ends by a TypeError before its first assignment
Thrown ==
    /\ UNCHANGED ctlVars
    /\ detectedGesture' = "none"
    /\ scanned' = <<>>

\* one-hand branch on a landmark set with the indices missing absent: the
\* calls run in order until one reads an absent landmark
OneHandThrows(landmarks, missing) ==
    LET hand == landmarks[1]
    IN  IF missing \cap DetectReads # {} THEN Thrown
        ELSE LET detected == detectGesture(hand)
                 smoothed == smoothGesture(gestureHistory, detected)
             IN  /\ handGesture' = smoothed.result
                 /\ gestureHistory' = smoothed.history
                 /\ detectedGesture' = detected
                 /\ scanned' = smoothed.history
                 /\ UNCHANGED handDistance
                 /\ IF missing \cap PositionReads # {}
                    THEN UNCHANGED <<targetHandPosition, targetHandRotationZ,
                                     targetHandRotationY>>
                    ELSE /\ targetHandPosition' = updateHandPosition(hand)
                         /\ IF missing \cap RollReads # {}
                            THEN UNCHANGED <<targetHandRotationZ, targetHandRotationY>>
                            ELSE /\ targetHandRotationZ' = -getHandRoll(hand)
                                 /\ UNCHANGED targetHandRotationY

\* a variant of the no-hand branch that returns to neutral even when locked
NoHands_IgnoresLock ==
    LET smoothed == smoothGesture(gestureHistory, "neutral")
    IN  /\ handDistance' = NeutralDistance
        /\ handGesture' = smoothed.result
        /\ targetHandPosition' =
               [c \in 1..3 |-> Lerp(targetHandPosition[c], 0, ReturnSmoothing)]
        /\ scanned' = smoothed.history
        /\ gestureHistory' = <<>>
        /\ UNCHANGED <<targetHandRotationZ, targetHandRotationY>>
        /\ detectedGesture' = "none"

NoHands_KeepsHistory ==
    /\ IF ~lockOnExit
       THEN LET smoothed == smoothGesture(gestureHistory, "neutral")
            IN  /\ handDistance' = NeutralDistance
                /\ handGesture' = smoothed.result
                /\ targetHandPosition' =
                       [c \in 1..3 |-> Lerp(targetHandPosition[c], 0, ReturnSmoothing)]
                /\ scanned' = smoothed.history
                /\ gestureHistory' = smoothed.history
       ELSE /\ UNCHANGED <<handDistance, handGesture, targetHandPosition>>
            /\ scanned' = <<>>
            /\ gestureHistory' = <<>>
    /\ UNCHANGED <<targetHandRotationZ, targetHandRotationY>>
    /\ detectedGesture' = "none"

\* no-hand branch (the final else)
NoHands ==
    /\ IF ~lockOnExit
       THEN LET smoothed == smoothGesture(gestureHistory, "neutral")
            IN  /\ handDistance' = NeutralDistance
                /\ handGesture' = smoothed.result
                /\ targetHandPosition' =
                       [c \in 1..3 |-> Lerp(targetHandPosition[c], 0, ReturnSmoothing)]
                /\ scanned' = smoothed.history
       ELSE /\ UNCHANGED <<handDistance, handGesture, targetHandPosition>>
            /\ scanned' = <<>>
    /\ gestureHistory' = <<>>
    /\ UNCHANGED <<targetHandRotationZ, targetHandRotationY>>
    /\ detectedGesture' = "none"

ObsKind(obs) ==
    IF ~obs.defined THEN "null"
    ELSE IF Len(obs.hands) = 0 THEN "zero"
    ELSE IF Len(obs.hands) = 1 THEN "one"
    ELSE IF Len(obs.hands) = 2 THEN "two"
    ELSE "many"

\* whether the handler reads an absent landmark of the observation
Throws(obs) ==
    /\ obs.defined
    /\ \/ Len(obs.landmarks) = 2 /\ 0 \in obs.missing[1] \cup obs.missing[2]
       \/ Len(obs.landmarks) = 1 /\ obs.missing[1] \cap ReadIndices # {}

\* a variant that takes the first two of three or more hands as a pair
onResults_AtLeastTwo(obs) ==
    /\ lastOp' = "onResults"
    /\ lastObs' = ObsKind(obs)
    /\ obsExt' = IF ObsKind(obs) = "one" THEN obs.hands[1].ext ELSE NoExt
    /\ obsLock' = lockOnExit
    /\ prevGesture' = handGesture
    /\ prevHistLen' = Len(gestureHistory)
    /\ thrown' = Throws(obs)
    /\ UNCHANGED <<lockOnExit, uiVars, inScene, frameVars, colorInputs>>
    /\ LET landmarks == obs.landmarks
       IN  IF obs.defined /\ Len(landmarks) >= 2
           THEN IF Throws(obs) THEN Thrown ELSE TwoHands(landmarks)
           ELSE IF obs.defined /\ Len(landmarks) = 1
           THEN IF Throws(obs) THEN OneHandThrows(landmarks, obs.missing[1])
                               ELSE OneHand(landmarks)
           ELSE NoHands
    /\ ctlSeen' = ctlVars'

\* onResults(results), with results.multiHandLandmarks given by obs
onResults(obs) ==
    /\ lastOp' = "onResults"
    /\ lastObs' = ObsKind(obs)
    /\ obsExt' = IF ObsKind(obs) = "one" THEN obs.hands[1].ext ELSE NoExt
    /\ obsLock' = lockOnExit
    /\ prevGesture' = handGesture
    /\ prevHistLen' = Len(gestureHistory)
    /\ thrown' = Throws(obs)
    /\ UNCHANGED <<lockOnExit, uiVars, inScene, frameVars, colorInputs>>
    /\ LET landmarks == obs.landmarks
       IN  IF obs.defined /\ Len(landmarks) = 2
           THEN IF Throws(obs) THEN Thrown ELSE TwoHands(landmarks)
           ELSE IF obs.defined /\ Len(landmarks) = 1
           THEN IF Throws(obs) THEN OneHandThrows(landmarks, obs.missing[1])
                               ELSE OneHand(landmarks)
           ELSE NoHands
    /\ ctlSeen' = ctlVars'

\* the lock-toggle change listener
SetLock(checked) ==
    /\ lockOnExit' = checked
    /\ thrown' = FALSE
    /\ UNCHANGED <<ctlVars, lastOp, obsVars, uiVars, inScene, frameVars, colorInputs>>

----------------------------------------------------------------------------
(* Trigonometry in fixed point: angles and results in 1/Unit.             *)

\* Bhaskara's approximation of sin on [0, pi], computed in 1/1000
SinHalfTurn(x) ==
    LET xr == x \div 10
        p == Pi \div 10
        t == xr * (p - xr)
    IN  10 * ((16 * t) \div ((5 * p * p - 4 * t) \div 1000))

\* Math.sin
Sin(a) ==
    LET r == a % (2 * Pi)
    IN  IF r <= Pi THEN SinHalfTurn(r) ELSE -SinHalfTurn(r - Pi)

\* Math.cos
Cos(a) == Sin(a + Pi \div 2)

\* NaN, as a division of zero by zero leaves it in a Float32Array
NaN == 1000 * 1000 * 1000

IsNaN(v) == v = NaN

\* cur += (target - cur) * alpha on floats that may be NaN
LerpF(cur, target, alpha) ==
    IF IsNaN(cur) \/ IsNaN(target) THEN NaN ELSE Lerp(cur, target, alpha)

----------------------------------------------------------------------------
(* Particle generation.  Math.random() draws are choices from small sets   *)
(* of points each generator can produce.                                   *)

particleCount == 1

Particles == 1..particleCount

\* points of templates[key](pos, i), world coordinates
TemplatePoints(key) ==
    CASE key = "galaxy" -> {<<0, 1000, 0>>, <<2000, 0, 0>>, <<0, 4356, -226>>}
      [] key = "spiral" -> {<<1500, 0, 0>>, <<1500, 0, -500>>}
      [] key = "barred" -> {<<0, 0, 0>>, <<2349, 855, 0>>}
      [] key = "sphere" -> {<<0, 2000, 0>>, <<0, 0, 6000>>}
      [] key = "heart" -> {<<0, -15500, 0>>, <<0, -15500, 249>>}
      [] key = "flower" -> {<<0, 2500, 0>>}
      \* ring at radius 50, 60 and 70, tilted; body at the equator and the pole
      [] key = "saturn" -> {<<4455, 2270, 0>>, <<5346, 2724, 0>>, <<6237, 3178, 0>>,
                            <<2673, 1362, 0>>, <<-1226, 2406, 0>>}
      \* halo (r = 37), surface (r = 35) at the equator and the pole
      [] key = "earth" -> {<<3393, 1475, 0>>, <<3210, 1396, 0>>, <<-1396, 3210, 0>>}
      [] key = "buddha" -> {<<0, 0, 0>>, <<1000, -4000, 0>>}
      [] key = "fireworks" -> {<<0, 0, 0>>, <<0, -9900, 0>>}
      [] OTHER -> {}

\* Object.keys(templates)
TemplateKeys == {"galaxy", "spiral", "barred", "sphere", "heart", "flower", "saturn",
                 "earth", "buddha", "fireworks"}

\* setFromSphericalCoords(Math.random() * 30, ...): radius in [0, 30)
SpherePoints == {<<0, 0, 0>>, <<1500, 0, 0>>, <<1200, -1600, 0>>}

\* setFromSphericalCoords(Math.random() * 300 + 50, ...): radius in [50, 350)
ExplodePoints == {<<5000, 0, 0>>, <<0, -20000, 0>>, <<0, 0, 34999>>}

White == <<Unit, Unit, Unit>>
InitialSize == 19000

\* Math.cos and Math.sin of the reversed tilts of -27 and -23.5 degrees
SaturnCosT == 8910
SaturnSinT == -4540
EarthCosT == 9171
EarthSinT == -3987
(* Colour generation.  A draw is the sequence of the results of the        *)
(* Math.random() calls of one colour function, each in 1/Unit, in call     *)
(* order; colour channels are in 1/Unit.                                   *)

RandomDraws == {<<0, 0, 0, 0, 0>>, <<5000, 5000, 5000, 5000, 5000>>,
                <<2500, 9999, 9999, 0, 0>>, <<7000, 0, 5000, 5000, 9999>>,
                <<9600, 2000, 0, 9999, 5000>>, <<9999, 9999, 9999, 9999, 9999>>}
MidDraw == <<5000, 5000, 5000, 5000, 5000>>
SameDraws == [i \in Particles |-> MidDraw]

\* Math.sqrt(x * x + y * y + z * z), world coordinates
Distance(p) == Sqrt(p[1] * p[1] + p[2] * p[2] + p[3] * p[3])

\* Color.multiplyScalar
multiplyScalar(c, f) == [k \in 1..3 |-> Frac(c[k], f)]

\* palette[Math.floor(r * palette.length)]
PaletteColor(palette, r) == palette[(r * Len(palette)) \div Unit + 1]

centerColors == <<<<10000, 9500, 8500>>, <<10000, 9000, 7500>>, <<9500, 8500, 7000>>>>
armColors == <<<<9000, 9500, 10000>>, <<7000, 8500, 10000>>, <<5000, 7000, 10000>>,
               <<6000, 8000, 10000>>>>
outerColors == <<<<4000, 5000, 8000>>, <<5000, 4000, 7000>>, <<6000, 5000, 8000>>>>

\* getGalaxyColor: palette by distance, brightness, star variation, clamp
getGalaxyColor(p, draw) ==
    LET normalizedDist == Min((Distance(p) * Unit) \div (100 * WorldUnit), Unit)
        finalColor ==
            IF normalizedDist < 2500
            THEN multiplyScalar(PaletteColor(centerColors, draw[1]),
                                11000 + Frac(draw[2], 2000))
            ELSE IF normalizedDist < 7000
            THEN multiplyScalar(PaletteColor(armColors, draw[1]),
                                9000 + Frac(draw[2], 3000))
            ELSE multiplyScalar(PaletteColor(outerColors, draw[1]),
                                7000 + Frac(draw[2], 2000))
    IN  [k \in 1..3 |->
            Max(0, Min(Unit, finalColor[k] + Frac(draw[k + 2] - Unit \div 2, 1000)))]

\* getSaturnColor: rings beyond radius 35 by band, the body by latitude; the
\* brightness noise is applied last and the result is returned as it is
getSaturnColor(p, draw) ==
    LET dist == Distance(p)
        band == dist
        localY == Frac(p[1], SaturnSinT) + Frac(p[2], SaturnCosT)
        absY == IF localY < 0 THEN -localY ELSE localY
    IN  IF dist > 35 * WorldUnit
        THEN LET c == IF band > 68 * WorldUnit /\ band < 72 * WorldUnit
                      THEN <<1000, 1000, 1000>>
                      ELSE IF \/ band > 45 * WorldUnit /\ band < 55 * WorldUnit
                              \/ band > 75 * WorldUnit /\ band < 85 * WorldUnit
                      THEN <<8500, 8000, 7000>>
                      ELSE <<7500, 6500, 5000>>
             IN  multiplyScalar(c, 8000 + Frac(draw[1], 4000))
        ELSE LET color == IF absY > 25 * WorldUnit THEN <<3500, 3500, 3000>>
                          ELSE IF absY > 18 * WorldUnit THEN <<7000, 6500, 5000>>
                          ELSE IF absY > 10 * WorldUnit THEN <<8000, 7000, 5000>>
                          ELSE IF absY > 3 * WorldUnit THEN <<8500, 7500, 5500>>
                          ELSE <<9000, 8000, 6000>>
             IN  multiplyScalar(color, 9000 + Frac(draw[1], 2000))

\* getEarthColor: clouds, ice, land and ocean, all fixed colours
getEarthColor(p, draw) ==
    LET localX == Frac(p[1], EarthCosT) - Frac(p[2], EarthSinT)
        localY == Frac(p[1], EarthSinT) + Frac(p[2], EarthCosT)
        localZ == p[3]
        dist == Distance(<<localX, localY, localZ>>)
        absLat == IF localY < 0 THEN -localY ELSE localY
        \* radians in 1/Unit of a world coordinate times 0.12
        nX == localX * 12
        nY == localY * 12
        nZ == localZ * 12
        noise == Frac(Sin(nX), Cos(nY)) + Sin(Frac(nY, 21000) + nZ) \div 2
                 + Frac(Cos(Frac(nZ, 15000) + nX), 3000)
    IN  IF dist > 36 * WorldUnit THEN <<10000, 10000, 10000>>
        ELSE IF absLat > 28 * WorldUnit THEN <<9500, 9800, 10000>>
        ELSE IF draw[1] > 9500 THEN <<10000, 10000, 10000>>
        ELSE IF noise > 2000
        THEN IF noise > 6000 /\ absLat < 20 * WorldUnit THEN <<500, 3500, 500>>
             ELSE IF absLat < 22 * WorldUnit THEN <<2000, 5000, 2000>>
             ELSE IF absLat > 25 * WorldUnit THEN <<6000, 6000, 6000>>
             ELSE <<5000, 4000, 2500>>
        ELSE IF noise < -5000 THEN <<0, 1000, 4000>>
        ELSE <<0, 3000, 7000>>

\* the colour createParticles assigns under the template key
ColorOf(key, p, draw) ==
    IF key = "saturn" THEN getSaturnColor(p, draw)
    ELSE IF key = "earth" THEN getEarthColor(p, draw)
    ELSE getGalaxyColor(p, draw)

\* a variant in which basePositions is the live array itself, not a copy
BaseIsLiveArray_Shared == TRUE

\* basePositions = new Float32Array(positions) copies the generated array:
\* writes to the live buffer do not reach basePositions
BaseIsLiveArray == FALSE

\* createParticles with the draws base (template points), sphere and draw (the
\* Math.random() results of each particle's colour function); key is the value
\* of currentTemplate the loop reads
createParticles(key, base, sphere, draw) ==
    /\ positions' = base
    /\ colors' = [i \in Particles |-> ColorOf(key, base[i], draw[i])]
    /\ basePositions' = base
    /\ spherePositions' = sphere
    /\ tint' = White
    /\ size' = InitialSize
    /\ rotation' = <<0, 0, 0>>
    /\ scale' = Unit
    /\ position' = <<0, 0, 0>>
    /\ inScene' = TRUE

\* toggleSolarSystem(show)
toggleSolarSystem(show) == solarSystemEnabled' = show

\* names every object inherits from Object.prototype: templates[name] is a
\* function although name is no key of the registry
InheritedKeys == {"constructor", "toString"}

\* the position a generator leaves that does not write pos: new THREE.Vector3()
DefaultPosition == <<0, 0, 0>>

\* changeTemplate with event.target.value = value; bases and spheres are the
\* draws createParticles can make for a key of the registry.  For a name
\* inherited from Object.prototype the call templates[value](position, i)
\* returns without writing position; for any other value templates[value] is
\* undefined and the call throws in the first iteration, after the particles
\* were removed from the scene and before any array is replaced.
changeTemplate(value, bases, spheres, draws) ==
    /\ IF value = "solarsystem"
       THEN /\ toggleSolarSystem(TRUE)
            /\ thrown' = FALSE
            /\ UNCHANGED <<currentTemplate, transformVars, materialVars, bufferVars,
                           inScene>>
       ELSE /\ toggleSolarSystem(FALSE)
            /\ currentTemplate' = value
            /\ IF value \in TemplateKeys
               THEN /\ thrown' = FALSE
                    /\ \E base \in bases, sphere \in spheres, draw \in draws :
                          createParticles(value, base, sphere, draw)
               ELSE IF value \in InheritedKeys
               THEN /\ thrown' = FALSE
                    /\ \E sphere \in spheres, draw \in draws :
                          createParticles(value, [i \in Particles |-> DefaultPosition],
                                          sphere, draw)
               ELSE /\ thrown' = TRUE
                    /\ inScene' = FALSE
                    /\ UNCHANGED <<transformVars, materialVars, bufferVars>>
    /\ UNCHANGED <<ctlVars, lockOnExit, lastOp, obsVars, isMouseDown, targetRotationX,
                   targetRotationY, time, coreVars, targetScale, colorInputs>>

ColorBlend == 3000
MaxColorInputs == 4

\* the blend of the tint toward the selected colour
ColorLerp(selectedColor) == [c \in 1..3 |-> Lerp(tint[c], selectedColor[c], ColorBlend)]

\* changeColor: material.color.lerp(selectedColor, 0.3)
changeColor(selectedColor) ==
    /\ colorInputs < MaxColorInputs
    /\ colorInputs' = colorInputs + 1
    /\ tint' = ColorLerp(selectedColor)
    /\ thrown' = FALSE
    /\ UNCHANGED <<ctlVars, lockOnExit, lastOp, obsVars, uiVars, inScene, time, transformVars,
                   size, bufferVars, coreVars, targetScale>>

onMouseDown ==
    /\ isMouseDown' = TRUE
    /\ thrown' = FALSE
    /\ UNCHANGED <<ctlVars, lockOnExit, lastOp, obsVars, currentTemplate, inScene,
                   solarSystemEnabled, targetRotationX, targetRotationY, frameVars, colorInputs>>

onMouseUp ==
    /\ isMouseDown' = FALSE
    /\ thrown' = FALSE
    /\ UNCHANGED <<ctlVars, lockOnExit, lastOp, obsVars, currentTemplate, inScene,
                   solarSystemEnabled, targetRotationX, targetRotationY, frameVars, colorInputs>>

DragGain == 100

\* onMouseMove by <<deltaX, deltaY>> pixels
onMouseMove(delta) ==
    /\ IF isMouseDown
       THEN /\ targetRotationY' = targetRotationY + delta[1] * DragGain
            /\ targetRotationX' = targetRotationX + delta[2] * DragGain
       ELSE UNCHANGED <<targetRotationX, targetRotationY>>
    /\ thrown' = FALSE
    /\ UNCHANGED <<ctlVars, lockOnExit, lastOp, obsVars, currentTemplate, inScene,
                   solarSystemEnabled, isMouseDown, frameVars, colorInputs>>

----------------------------------------------------------------------------
(* animate: the frame callback *)

MaxFrames == 2

TimeStep == 500
rotationSmoothing == 1000
positionSmoothing == 1500
MouseSmoothing == 500
AmbientY == 8
AmbientZ == 1
ScaleSmoothing == 1000
TintSmoothing == 1500
TintFloor == 3000
morphSpeed == 800
NoiseGain == 500
CoreSmoothing == 1000

\* a variant of step 1 that tracks the hand whenever the gesture is not neutral
NextRotation_ByGesture ==
    IF isMouseDown
    THEN << Lerp(rotation[1], targetRotationX, MouseSmoothing),
            Lerp(rotation[2], targetRotationY, MouseSmoothing),
            rotation[3] >>
    ELSE IF handGesture # "neutral"
    THEN << rotation[1],
            Lerp(rotation[2], targetHandRotationY, rotationSmoothing),
            Lerp(rotation[3], targetHandRotationZ, rotationSmoothing) >>
    ELSE << rotation[1], rotation[2] + AmbientY, rotation[3] + AmbientZ >>

\* a variant of step 1 without the ambient rotation
NextRotation_NoAmbient ==
    IF isMouseDown
    THEN << Lerp(rotation[1], targetRotationX, MouseSmoothing),
            Lerp(rotation[2], targetRotationY, MouseSmoothing),
            rotation[3] >>
    ELSE IF Len(gestureHistory) > 0
    THEN << rotation[1],
            Lerp(rotation[2], targetHandRotationY, rotationSmoothing),
            Lerp(rotation[3], targetHandRotationZ, rotationSmoothing) >>
    ELSE rotation

\* a variant of step 1 in which a present hand goes before the mouse drag
NextRotation_HandFirst ==
    IF Len(gestureHistory) > 0
    THEN << rotation[1],
            Lerp(rotation[2], targetHandRotationY, rotationSmoothing),
            Lerp(rotation[3], targetHandRotationZ, rotationSmoothing) >>
    ELSE IF isMouseDown
    THEN << Lerp(rotation[1], targetRotationX, MouseSmoothing),
            Lerp(rotation[2], targetRotationY, MouseSmoothing),
            rotation[3] >>
    ELSE << rotation[1], rotation[2] + AmbientY, rotation[3] + AmbientZ >>

\* step 1: rotation, by mouse drag, by hand, or ambient
NextRotation ==
    IF isMouseDown
    THEN << Lerp(rotation[1], targetRotationX, MouseSmoothing),
            Lerp(rotation[2], targetRotationY, MouseSmoothing),
            rotation[3] >>
    ELSE IF Len(gestureHistory) > 0
    THEN << rotation[1],
            Lerp(rotation[2], targetHandRotationY, rotationSmoothing),
            Lerp(rotation[3], targetHandRotationZ, rotationSmoothing) >>
    ELSE << rotation[1], rotation[2] + AmbientY, rotation[3] + AmbientZ >>

\* step 2: the local targetScale
ScaleTarget ==
    IF handGesture = "neutral" /\ handDistance # 5000
    THEN LET minScale == 5000
             maxScale == 20000
         IN  minScale + Frac(maxScale - minScale, handDistance)
    ELSE IF handGesture = "open" THEN 25000
    ELSE IF handGesture = "closed" THEN 7000
    ELSE Unit

\* step 3: targetTintColor and material.size by gesture
TintTarget ==
    IF handGesture = "closed" THEN <<15000, 9000, 2000>>
    ELSE IF handGesture = "open" THEN <<5000, 10000, 13000>>
    ELSE White

SizeTarget ==
    IF handGesture = "closed" THEN 10000
    ELSE IF handGesture = "open" THEN 30000
    ELSE 18000

\* a variant of the tint step that blends without the floor
NextTint_NoFloor == [c \in 1..3 |-> Lerp(tint[c], TintTarget[c], TintSmoothing)]

\* the blend toward the target tint, then the floor on each channel
NextTint == [c \in 1..3 |-> Max(TintFloor, Lerp(tint[c], TintTarget[c], TintSmoothing))]

\* a variant that draws the radius without the offset of 50
explodeUniverse_NoOffset == [Particles -> SpherePoints]

\* explodeUniverse: the buffers it can leave, one fresh draw per particle
explodeUniverse == [Particles -> ExplodePoints]

\* the standing-wave displacement of a compressed point b at clock t:
\* b * scaleVar, NaN in every coordinate when b has zero length
CompressedTarget(b, t) ==
    LET dist == Sqrt(b[1] * b[1] + b[2] * b[2] + b[3] * b[3])
    IN  IF dist = 0 THEN <<NaN, NaN, NaN>>
        ELSE LET nx == (b[1] * Unit) \div dist
                 ny == (b[2] * Unit) \div dist
                 nz == (b[3] * Unit) \div dist
                 noise == Frac(Frac(Sin(nx * 4 + t), Cos(ny * 4 + t)),
                               Sin(nz * 4 + (t * 3) \div 2))
                          + Sin(nx * 10 - t * 2) \div 2
                 scaleVar == Unit + Frac(noise, NoiseGain)
             IN  [c \in 1..3 |-> Frac(b[c], scaleVar)]

\* a variant of the closed morph that leaves the buffer where it is
MorphClosed_NoBlend(cur, t) == cur

\* a variant of the open morph that blends toward the compressed sphere
MorphOpen_TowardSphere(cur) ==
    [i \in Particles |->
        [c \in 1..3 |-> LerpF(cur[i][c], spherePositions[i][c], morphSpeed)]]

\* step 5 for the closed gesture, on the buffer cur at clock t
MorphClosed(cur, t) ==
    [i \in Particles |->
        LET target == CompressedTarget(spherePositions[i], t)
        IN  [c \in 1..3 |-> LerpF(cur[i][c], target[c], morphSpeed)]]

\* step 5 for the open gesture
MorphOpen(cur) ==
    [i \in Particles |-> [c \in 1..3 |-> LerpF(cur[i][c], basePositions[i][c], morphSpeed)]]

\* targetCoreScale at clock t
CoreTarget(t) ==
    IF handGesture = "closed" THEN 8000 + Sin(t \div 2) \div 10 ELSE 0

\* a variant of the frame that takes the gesture back after acting on it
animate_ClearsGesture ==
    /\ time < MaxFrames * TimeStep
    /\ time' = time + TimeStep
    /\ lastOp' = "animate"
    /\ IF solarSystemEnabled
       THEN UNCHANGED <<transformVars, materialVars, bufferVars, coreVars, targetScale>>
       ELSE /\ rotation' = NextRotation
            /\ targetScale' = ScaleTarget
            /\ scale' = Lerp(scale, ScaleTarget, ScaleSmoothing)
            /\ tint' = NextTint
            /\ size' = SizeTarget
            /\ \E cur \in (IF handGesture = "peace" THEN explodeUniverse ELSE {positions}) :
                 positions' = IF handGesture = "closed"
                                  THEN MorphClosed(cur, time + TimeStep)
                              ELSE IF handGesture = "open" THEN MorphOpen(cur)
                              ELSE cur
            /\ basePositions' = IF BaseIsLiveArray THEN positions' ELSE basePositions
            /\ UNCHANGED <<spherePositions, colors>>
            /\ coreScale' = Lerp(coreScale, CoreTarget(time + TimeStep), CoreSmoothing)
            /\ corePosition' = position
            /\ coreRotation' = NextRotation
            /\ position' = [c \in 1..3 |-> Lerp(position[c], targetHandPosition[c],
                                               positionSmoothing)]
    /\ thrown' = FALSE
    /\ handGesture' = "neutral"
    /\ UNCHANGED <<handDistance, targetHandPosition, targetHandRotationZ,
                   targetHandRotationY, gestureHistory>>
    /\ UNCHANGED <<lockOnExit, obsVars, uiVars, inScene, colorInputs>>

\* a variant of the frame that also blends toward the base shape under neutral
animate_NeutralRelaxes ==
    /\ time < MaxFrames * TimeStep
    /\ time' = time + TimeStep
    /\ lastOp' = "animate"
    /\ IF solarSystemEnabled
       THEN UNCHANGED <<transformVars, materialVars, bufferVars, coreVars, targetScale>>
       ELSE /\ rotation' = NextRotation
            /\ targetScale' = ScaleTarget
            /\ scale' = Lerp(scale, ScaleTarget, ScaleSmoothing)
            /\ tint' = NextTint
            /\ size' = SizeTarget
            /\ \E cur \in (IF handGesture = "peace" THEN explodeUniverse ELSE {positions}) :
                 positions' = IF handGesture = "closed"
                                  THEN MorphClosed(cur, time + TimeStep)
                              ELSE IF handGesture \in {"open", "neutral"} THEN MorphOpen(cur)
                              ELSE cur
            /\ basePositions' = IF BaseIsLiveArray THEN positions' ELSE basePositions
            /\ UNCHANGED <<spherePositions, colors>>
            /\ coreScale' = Lerp(coreScale, CoreTarget(time + TimeStep), CoreSmoothing)
            /\ corePosition' = position
            /\ coreRotation' = NextRotation
            /\ position' = [c \in 1..3 |-> Lerp(position[c], targetHandPosition[c],
                                               positionSmoothing)]
    /\ thrown' = FALSE
    /\ UNCHANGED <<ctlVars, lockOnExit, obsVars, uiVars, inScene, colorInputs>>

\* animate: one frame of the loop
animate ==
    /\ time < MaxFrames * TimeStep
    /\ time' = time + TimeStep
    /\ lastOp' = "animate"
    /\ IF solarSystemEnabled
       THEN UNCHANGED <<transformVars, materialVars, bufferVars, coreVars, targetScale>>
       ELSE /\ rotation' = NextRotation
            /\ targetScale' = ScaleTarget
            /\ scale' = Lerp(scale, ScaleTarget, ScaleSmoothing)
            /\ tint' = NextTint
            /\ size' = SizeTarget
            /\ \E cur \in (IF handGesture = "peace" THEN explodeUniverse ELSE {positions}) :
                 positions' = IF handGesture = "closed"
                                  THEN MorphClosed(cur, time + TimeStep)
                              ELSE IF handGesture = "open" THEN MorphOpen(cur)
                              ELSE cur
            /\ basePositions' = IF BaseIsLiveArray THEN positions' ELSE basePositions
            /\ UNCHANGED <<spherePositions, colors>>
            /\ coreScale' = Lerp(coreScale, CoreTarget(time + TimeStep), CoreSmoothing)
            /\ corePosition' = position
            /\ coreRotation' = NextRotation
            /\ position' = [c \in 1..3 |-> Lerp(position[c], targetHandPosition[c],
                                               positionSmoothing)]
    /\ thrown' = FALSE
    /\ UNCHANGED <<ctlVars, lockOnExit, obsVars, uiVars, inScene, colorInputs>>

----------------------------------------------------------------------------
(* Initial state: the module-level declarations, after init() *)

InitControl ==
    /\ handDistance = InitialHandDistance
    /\ handGesture = "neutral"
    /\ targetHandPosition = <<0, 0, 0>>
    /\ targetHandRotationZ = 0
    /\ targetHandRotationY = 0
    /\ gestureHistory = <<>>
    /\ lockOnExit = TRUE
    /\ lastOp = "init"
    /\ thrown = FALSE
    /\ lastObs = "none"
    /\ detectedGesture = "none"
    /\ scanned = <<>>
    /\ obsLock = TRUE
    /\ prevGesture = "neutral"
    /\ prevHistLen = 0
    /\ ctlSeen = <<InitialHandDistance, "neutral", <<0, 0, 0>>, 0, 0, <<>>>>

\* the session with the draws base and sphere of the first createParticles
InitSession(base, sphere) ==
    /\ colors = [i \in Particles |-> getGalaxyColor(base[i], MidDraw)]
    /\ currentTemplate = "galaxy"
    /\ solarSystemEnabled = FALSE
    /\ isMouseDown = FALSE
    /\ inScene = TRUE
    /\ targetRotationX = 0
    /\ targetRotationY = 0
    /\ time = 0
    /\ rotation = <<0, 0, 0>>
    /\ scale = Unit
    /\ position = <<0, 0, 0>>
    /\ tint = White
    /\ size = InitialSize
    /\ positions = base
    /\ basePositions = base
    /\ spherePositions = sphere
    /\ coreScale = 0
    /\ corePosition = <<0, 0, 0>>
    /\ coreRotation = <<0, 0, 0>>
    /\ targetScale = 0
    /\ colorInputs = 0

Init ==
    /\ InitControl
    /\ obsExt = NoExt
    /\ \E base \in [Particles -> TemplatePoints("galaxy")],
          sphere \in [Particles -> SpherePoints] : InitSession(base, sphere)

\* one session: the galaxy arm point, a compressed point off the origin
FirstBase == [i \in Particles |-> <<2000, 0, 0>>]
FirstSphere == [i \in Particles |-> <<1200, -1600, 0>>]

InitOne ==
    /\ InitControl
    /\ obsExt = NoExt
    /\ InitSession(FirstBase, FirstSphere)

----------------------------------------------------------------------------
(* Observations the pose source delivers *)

UprightPose == [wrist |-> <<5000, 5000, 0>>, knuckle |-> <<0, -1000>>, z5 |-> 0, z17 |-> 0]
TurnedPose  == [wrist |-> <<2000, 7000, -400>>, knuckle |-> <<1000, 0>>, z5 |-> 300, z17 |-> -200]
TiltedPose  == [wrist |-> <<8000, 3000, 200>>, knuckle |-> <<-1000, -1000>>, z5 |-> -100, z17 |-> 100]

Hand(ext, curl, pose) ==
    [ext |-> ext, curl |-> curl, wrist |-> pose.wrist, knuckle |-> pose.knuckle,
     z5 |-> pose.z5, z17 |-> pose.z17]

\* every combination of finger states, curled tips below or level with the joint
AllHands == {Hand(ext, curl, pose) : ext \in [Fingers -> BOOLEAN], curl \in {0, 400},
                                      pose \in {UprightPose, TurnedPose, TiltedPose}}

Ext(fs) == [f \in Fingers |-> f \in fs]

\* one hand per raw gesture, and a fist seen in another pose
FistHand  == Hand(Ext({"thumb"}), 400, UprightPose)
PalmHand  == Hand(Ext(Fingers), 400, UprightPose)
PeaceHand == Hand(Ext({"index", "middle"}), 400, UprightPose)
HalfHand  == Hand(Ext({"ring", "pinky"}), 400, UprightPose)
TurnedFist == Hand(Ext({}), 0, TurnedPose)
SampleHands == {FistHand, PalmHand, PeaceHand, HalfHand, TurnedFist}

WristAt(x, y) == Hand(NoExt, 400, [UprightPose EXCEPT !.wrist = <<x, y, 0>>])

\* wrist pairs around the centre of the image at 2D distance 0.03, 0.2938,
\* 0.375, 0.5 (a 3-4-5 triangle) and 0.8
TwoHandPairs ==
    { <<WristAt(4850, 5000), WristAt(5150, 5000)>>,
      <<WristAt(3531, 5000), WristAt(6469, 5000)>>,
      <<WristAt(3125, 5000), WristAt(6875, 5000)>>,
      <<WristAt(3500, 3000), WristAt(6500, 7000)>>,
      <<WristAt(1000, 5000), WristAt(9000, 5000)>> }

ThreeHands == <<WristAt(1000, 1000), WristAt(2000, 2000), WristAt(3000, 3000)>>

\* two hands at normalised distance 0.375 and at 0.5
NearPair == Observed(<<WristAt(3531, 5000), WristAt(6469, 5000)>>)
MidPair == Observed(<<WristAt(3125, 5000), WristAt(6875, 5000)>>)

ZeroHandObs == Observed(<<>>)
OneHandObs == {Observed(<<h>>) : h \in SampleHands}
TwoHandObs == {Observed(hs) : hs \in TwoHandPairs}

ClassifyObs ==
    {NoLandmarks, ZeroHandObs, Observed(ThreeHands)} \cup OneHandObs \cup TwoHandObs

NextClassify ==
    \/ \E obs \in ClassifyObs : onResults(obs)
    \/ \E checked \in BOOLEAN : SetLock(checked)

SpecClassify == InitOne /\ [][NextClassify]_vars

\* the first observation of a session, for every hand: the finger states are
\* drawn in the initial state, the step classifies the hand
InitDetect ==
    /\ InitControl
    /\ obsExt \in [Fingers -> BOOLEAN]
    /\ InitSession(FirstBase, FirstSphere)

NextDetect ==
    /\ lastOp = "init"
    /\ \E h \in AllHands : h.ext = obsExt /\ onResults(Observed(<<h>>))

SpecDetect == InitDetect /\ [][NextDetect]_vars

Black == <<0, 0, 0>>

\* frames, gestures, colour inputs and template changes
NextTintSpec ==
    \/ \E obs \in {Observed(<<FistHand>>), MidPair} : onResults(obs)
    \/ animate
    \/ \E selectedColor \in {Black} : changeColor(selectedColor)
    \/ \E value \in {"sphere", "solarsystem"} :
          changeTemplate(value, {[i \in Particles |-> <<0, 0, 6000>>]}, {FirstSphere}, {SameDraws})

SpecTint == InitOne /\ [][NextTintSpec]_vars

\* frames and observations of zero, one and two hands
ScaleObs == {ZeroHandObs, Observed(<<FistHand>>), Observed(<<PalmHand>>), NearPair, MidPair}

NextScale ==
    \/ \E obs \in ScaleObs : onResults(obs)
    \/ \E checked \in BOOLEAN : SetLock(checked)
    \/ animate

SpecScale == InitOne /\ [][NextScale]_vars

\* malformed hands: one landmark absent, or the array cut short
CutShort == {n..20 : n \in {0, 7, 19, 20}}
MissingSets == {{i} : i \in ReadIndices} \cup CutShort

MalformedOneHandObs == {Malformed(<<PalmHand>>, <<m>>) : m \in MissingSets}
MalformedTwoHandObs ==
    {Malformed(<<WristAt(3531, 5000), WristAt(6469, 5000)>>, ms) :
        ms \in {<<m, {}>> : m \in MissingSets} \cup {<<{}, m>> : m \in MissingSets}}
MalformedObs == MalformedOneHandObs \cup MalformedTwoHandObs

\* well-formed and malformed observations in any order
NextMalformed ==
    \/ \E obs \in {Observed(<<FistHand>>), Observed(<<TurnedFist>>)} : onResults(obs)
    \/ \E obs \in MalformedObs : onResults(obs)

SpecMalformed == InitOne /\ [][NextMalformed]_vars

\* values of the template selector that are no key of the registry
UnknownKeys == {"nebula", ""} \cup InheritedKeys

\* template changes to known and unknown keys, with frames in between
NextTemplate ==
    \/ \E value \in {"sphere", "solarsystem"} \cup UnknownKeys :
          changeTemplate(value, [Particles -> TemplatePoints(value)], {FirstSphere}, {SameDraws})
    \/ \E obs \in {Observed(<<FistHand>>)} : onResults(obs)
    \/ animate

\* frames under every gesture, with a template change in between; a hand is
\* seen once and leaves, with the lock keeping its gesture, before the next
GestureObs == {Observed(<<h>>) : h \in {FistHand, PalmHand, PeaceHand}}

NextBuffers ==
    \/ \E obs \in GestureObs :
          /\ gestureHistory = <<>>
          /\ onResults(obs)
    \/ onResults(ZeroHandObs)
    \/ animate
    \/ changeTemplate("sphere", {[i \in Particles |-> <<0, 0, 6000>>]}, {FirstSphere}, {SameDraws})

SpecBuffers == InitOne /\ [][NextBuffers]_vars

SpecTemplate == InitOne /\ [][NextTemplate]_vars

\* The morph of step 5 iterated on its own: a gesture held over any number
\* of frames, the clock held at its initial value.  The buffer starts at the
\* generated shape, at an exploded point or at a compressed point.
MorphStarts == {<<0, 0, 34999>>, <<1500, 0, 0>>, FirstBase[1]}
MorphSpheres == {<<0, 0, 0>>, <<1200, -1600, 0>>}
MorphClocks == {3 * TimeStep}

InitMorph ==
    /\ InitControl
    /\ obsExt = NoExt
    /\ currentTemplate = "galaxy"
    /\ solarSystemEnabled = FALSE
    /\ isMouseDown = FALSE
    /\ inScene = TRUE
    /\ targetRotationX = 0
    /\ targetRotationY = 0
    /\ time \in MorphClocks
    /\ rotation = <<0, 0, 0>>
    /\ scale = Unit
    /\ position = <<0, 0, 0>>
    /\ tint = White
    /\ size = InitialSize
    /\ positions \in [Particles -> MorphStarts]
    /\ basePositions = FirstBase
    /\ spherePositions \in [Particles -> MorphSpheres]
    /\ colors = [i \in Particles |-> getGalaxyColor(FirstBase[i], MidDraw)]
    /\ coreScale = 0
    /\ corePosition = <<0, 0, 0>>
    /\ coreRotation = <<0, 0, 0>>
    /\ targetScale = 0
    /\ colorInputs = 0

\* the gesture that is then held: one one-hand observation
HoldGesture(obs) ==
    /\ lastOp = "init"
    /\ onResults(obs)

\* step 5 of a frame on the position buffer, nothing else of the frame
MorphFrame ==
    /\ lastOp # "init"
    /\ lastOp' = "animate"
    /\ positions' = IF handGesture = "closed" THEN MorphClosed(positions, time)
                    ELSE IF handGesture = "open" THEN MorphOpen(positions)
                    ELSE positions
    /\ thrown' = FALSE
    /\ UNCHANGED <<ctlVars, lockOnExit, obsVars, uiVars, inScene, time, transformVars,
                   materialVars, basePositions, spherePositions, colors, coreVars,
                   targetScale,
                   colorInputs>>

NextMorph ==
    \/ \E obs \in {Observed(<<FistHand>>), Observed(<<PalmHand>>)} : HoldGesture(obs)
    \/ MorphFrame

\* frames keep coming: requestAnimationFrame(animate) re-arms itself
SpecMorph == InitMorph /\ [][NextMorph]_vars /\ WF_vars(MorphFrame)

------------------------------------------------------------\* generation under every key of the registry, with frames in between
NextGenerate ==
    \/ \E value \in TemplateKeys :
          changeTemplate(value, [Particles -> TemplatePoints(value)], {FirstSphere},
                         [Particles -> RandomDraws])
    \/ animate

SpecGenerate == InitOne /\ [][NextGenerate]_vars

\* no hand, and a fist seen tilted
RotateObs == {ZeroHandObs, Observed(<<Hand(Ext({}), 400, TiltedPose)>>)}

\* one drag of the mouse by <<deltaX, deltaY>> pixels from rest
DragDeltas == {<<30, -20>>}

\* frames with observations, mouse drags and the solar-system view in between
NextRotate ==
    \/ \E obs \in RotateObs : onResults(obs)
    \/ onMouseDown
    \/ onMouseUp
    \/ \E delta \in DragDeltas :
          /\ targetRotationX = 0
          /\ targetRotationY = 0
          /\ onMouseMove(delta)
    \/ \E value \in {"solarsystem", "galaxy"} :
          changeTemplate(value, {FirstBase}, {FirstSphere}, {SameDraws})
    \/ animate

SpecRotate == InitOne /\ [][NextRotate]_vars

\* no hand, and one hand seen tilted: a fist, and a hand with two fingers out
\* that no gesture matches
ModeObs == {ZeroHandObs} \cup
           {Observed(<<Hand(fs, 400, TiltedPose)>>) : fs \in {Ext({}), Ext({"ring", "pinky"})}}

\* frames with observations and the mouse button in between
NextMode ==
    \/ \E obs \in ModeObs : onResults(obs)
    \/ onMouseDown
    \/ onMouseUp
    \/ animate

SpecMode == InitOne /\ [][NextMode]_vars

----------------
(* Properties of the gesture classifier *)

AfterObs(kind) == lastOp = "onResults" /\ lastObs = kind

\* C1: an observation with exactly two hands leaves handGesture = "neutral" and
\* gestureHistory empty, whatever the gesture, history and lock flag were before.
C1_TwoHandsForceNeutral ==
    AfterObs("two") => handGesture = "neutral" /\ gestureHistory = <<>>

C1_Witness ==
    /\ AfterObs("two")
    /\ prevGesture = "closed"
    /\ prevHistLen = gestureHistorySize
    /\ ~lockOnExit

OneHandStep == \E obs \in OneHandObs : onResults(obs)
ZeroHandStep == onResults(ZeroHandObs)
TwoHandStep == \E obs \in TwoHandObs : onResults(obs)

LastK(s, k) == IF Len(s) > k THEN SubSeq(s, Len(s) - k + 1, Len(s)) ELSE s

\* C2: gestureHistory never holds more than K = 5 samples; a one-hand observation
\* leaves the most recent K samples (the old history followed by the new raw
\* sample, oldest dropped first); an observation with 0 or 2 hands leaves it empty.
C2_HistoryRing ==
    /\ [](Len(gestureHistory) <= gestureHistorySize)
    /\ [][OneHandStep =>
            gestureHistory' = LastK(Append(gestureHistory, detectedGesture'), 5)]_vars
    /\ [][ZeroHandStep \/ TwoHandStep => gestureHistory' = <<>>]_vars

C2_Witness ==
    /\ AfterObs("one")
    /\ prevHistLen = gestureHistorySize
    /\ Len(gestureHistory) = gestureHistorySize
    /\ gestureHistory[1] # gestureHistory[5]
    /\ gestureHistory[5] = detectedGesture

\* C3: when the scanned history holds K = 5 samples and one gesture occurs at
\* least 3 times, smoothGesture returns that gesture, wherever its occurrences
\* are in the history and whatever the other samples are.
C3_MajorityWins ==
    \A g \in Gestures :
        (lastOp = "onResults" /\ Len(scanned) = 5 /\ CountOf(scanned, g) >= 3)
            => handGesture = g

C3_Witness ==
    /\ lastOp = "onResults"
    /\ Len(scanned) = 5
    /\ CountOf(scanned, "peace") = 3
    /\ scanned[1] = "open"
    /\ scanned[5] = "closed"
    /\ handGesture = "peace"

EnumRank == [open |-> 1, closed |-> 2, neutral |-> 3, peace |-> 4]

\* C4: smoothGesture returns the most frequent gesture of the history, and among
\* gestures sharing the maximum count the first of open, closed, neutral, peace;
\* the result is determined by the counts alone.
C4_MostFrequentEnumOrder ==
    (lastOp = "onResults" /\ scanned # <<>>) =>
        \A h \in Gestures :
            \/ CountOf(scanned, handGesture) > CountOf(scanned, h)
            \/ /\ CountOf(scanned, handGesture) = CountOf(scanned, h)
               /\ EnumRank[handGesture] <= EnumRank[h]

C4_Witness ==
    /\ lastOp = "onResults"
    /\ Len(scanned) = 4
    /\ scanned[1] = "peace"
    /\ CountOf(scanned, "peace") = 2
    /\ CountOf(scanned, "closed") = 2
    /\ handGesture = "closed"

FourFingers == {"index", "middle", "ring", "pinky"}

FirstMatch(ext) ==
    LET n == Cardinality({f \in FourFingers : ext[f]})
    IN  IF ext["index"] /\ ext["middle"] /\ ~ext["ring"] THEN "peace"
        ELSE IF n >= 3 THEN "open"
        ELSE IF n <= 1 THEN "closed"
        ELSE "neutral"

\* C5: for every combination of extended/curled thumb, index, middle, ring and
\* pinky, detectGesture returns peace if index and middle are extended and ring
\* is curled, else open if at least 3 of the four fingers are extended, else
\* closed if at most 1 is, else neutral: a function of the four fingers alone.
C5_DetectFirstMatch ==
    AfterObs("one") => detectedGesture = FirstMatch(obsExt)

C5_Witness ==
    /\ AfterObs("one")
    /\ obsExt["thumb"] /\ obsExt["index"] /\ obsExt["middle"] /\ obsExt["pinky"]
    /\ ~obsExt["ring"]
    /\ detectedGesture = "peace"

\* C6 as claimed: a zero-hand observation with the lock flag not set leaves
\* handGesture = "neutral", for every prior gesture and history.
C6_ZeroHandsResolveNeutral ==
    (AfterObs("zero") /\ ~obsLock) => handGesture = "neutral"

\* C6 as amended: a zero-hand observation with the lock flag not set leaves the
\* history empty and handGesture equal to the smoothed gesture of the prior
\* history with one neutral sample appended: neutral unless another gesture
\* is at least as frequent there and comes earlier in the enumeration, or is
\* more frequent; in particular neutral when the prior history was empty, as
\* in a second consecutive zero-hand observation.
C6_ZeroHandsSmoothedNeutral ==
    (AfterObs("zero") /\ ~obsLock) =>
        /\ gestureHistory = <<>>
        /\ Len(scanned) = Min(prevHistLen + 1, gestureHistorySize)
        /\ scanned[Len(scanned)] = "neutral"
        /\ prevHistLen = 0 => handGesture = "neutral"
        /\ handGesture # "neutral" =>
              \/ CountOf(scanned, handGesture) > CountOf(scanned, "neutral")
              \/ /\ CountOf(scanned, handGesture) = CountOf(scanned, "neutral")
                 /\ EnumRank[handGesture] < EnumRank["neutral"]

C6_Witness ==
    /\ AfterObs("zero")
    /\ ~obsLock
    /\ prevHistLen = gestureHistorySize
    /\ prevGesture = "closed"
    /\ handGesture = "closed"
    /\ gestureHistory = <<>>

\* C7: with the lock flag set, a zero-hand observation leaves handGesture,
\* handDistance, targetHandPosition and the roll and yaw targets as they were,
\* and leaves gestureHistory empty with no sample scanned.
C7_LockFreezes ==
    [][(ZeroHandStep /\ lockOnExit) =>
          /\ UNCHANGED <<handGesture, handDistance, targetHandPosition,
                         targetHandRotationZ, targetHandRotationY>>
          /\ gestureHistory' = <<>>
          /\ scanned' = <<>>]_vars

C7_Witness ==
    /\ AfterObs("zero")
    /\ obsLock
    /\ prevHistLen = 0
    /\ handGesture = "peace"
    /\ targetHandRotationZ # 0
    /\ handDistance = NeutralDistance

----------------------------------------------------------------------------
(* Properties of the frame loop *)

AfterFrame == lastOp = "animate" /\ ~solarSystemEnabled

\* C8 as claimed: in every state, whatever tint blends of animate and changeColor
\* came before, every channel of the material tint is at least 0.3.
C8_TintFloorAlways ==
    \A c \in 1..3 : tint[c] >= TintFloor

\* C8 as amended: every frame that runs with solar-system mode off leaves every
\* channel of the material tint at least 0.3, whatever gesture blends,
\* changeColor blends and template changes came before it.
C8_TintFloorAfterFrame ==
    [][(time' # time /\ ~solarSystemEnabled) => \A c \in 1..3 : tint'[c] >= TintFloor]_vars

C8_Witness ==
    /\ AfterFrame
    /\ handGesture = "closed"
    /\ colorInputs = MaxColorInputs
    /\ tint[3] = TintFloor
    /\ tint[1] > TintFloor

\* C9: the scale target of a frame is 0.7 when the gesture is closed, 2.5 when
\* it is open, and 0.5 + 1.5 * d after a two-hand observation with normalised
\* distance d.
C9_ScaleTargets ==
    AfterFrame =>
        /\ handGesture = "closed" => targetScale = 7000
        /\ handGesture = "open" => targetScale = 25000
        /\ lastObs = "two" => targetScale = 5000 + Frac(15000, handDistance)

\* C10: in a frame with the neutral gesture and no two-hand distance signal
\* (no observation yet, or the last one was a one-hand or an unlocked zero-hand
\* observation) the scale target is 1.0.
C10_NeutralUnitScale ==
    ( /\ AfterFrame
      /\ handGesture = "neutral"
      /\ \/ lastObs \in {"none", "one"}
         \/ lastObs = "zero" /\ ~obsLock )
    => targetScale = Unit

----------------------------------------------------------------------------
(* Properties of malformed observations *)

MalformedStep == \E obs \in MalformedObs : onResults(obs)

\* C11: an observation that contains a malformed hand (a landmark the handler
\* reads is absent, or the set has fewer than 21 landmarks) leaves handGesture,
\* gestureHistory, handDistance, targetHandPosition and the roll and yaw
\* targets exactly as they were, with one hand or two.
C11_MalformedSkipped ==
    [][MalformedStep => UNCHANGED ctlVars]_vars

----------------------------------------------------------------------------
(* Properties of template changes *)

UnknownTemplateStep ==
    \E value \in UnknownKeys :
        changeTemplate(value, [Particles -> TemplatePoints(value)], {FirstSphere}, {SameDraws})

\* C12: changeTemplate with a key that is not in the templates registry ends
\* with an error and generates no particle set: the position arrays are those
\* of the last successful template change.
C12_UnknownTemplateFails ==
    [][UnknownTemplateStep => thrown' /\ UNCHANGED bufferVars]_vars

----------------------------------------------------------------------------
(* Properties of the morph *)

Abs(a) == IF a < 0 THEN -a ELSE a

Coords == Particles \X (1..3)

\* the compressed+noise target of coordinate pc at the held clock
ClosedTarget(pc) == CompressedTarget(spherePositions[pc[1]], time)[pc[2]]

FiniteBuffer == \A pc \in Coords : ~IsNaN(positions[pc[1]][pc[2]])
FiniteTargets == \A pc \in Coords : ~IsNaN(ClosedTarget(pc))

\* the distance d' after a blend of factor 0.08 from distance d, up to the
\* rounding of one fixed-point unit
Shrinks(d, dNext) ==
    /\ dNext <= d
    /\ dNext * Unit <= d * (Unit - morphSpeed) + Unit
    /\ dNext * Unit >= d * (Unit - morphSpeed) - Unit

\* the distance below which a blend step of factor 0.08 rounds to nothing
MorphEps == Unit \div morphSpeed + 1

ClosedHeld == handGesture = "closed" /\ FiniteBuffer /\ FiniteTargets

NearClosedTarget ==
    \A pc \in Coords : Abs(positions[pc[1]][pc[2]] - ClosedTarget(pc)) <= MorphEps

ClosedFrameShrinks ==
    (ClosedHeld /\ lastOp # "init") =>
        \A pc \in Coords :
            Shrinks(Abs(positions[pc[1]][pc[2]] - ClosedTarget(pc)),
                    Abs(positions'[pc[1]][pc[2]] - ClosedTarget(pc)))

\* C13: with the closed gesture held and the clock fixed, every frame takes
\* each coordinate's distance to its compressed+noise target to 0.92 of what
\* it was, and the buffer eventually stays within the rounding distance of
\* the target (for reference points of non-zero length, whose target is a number).
C13_ClosedMorphConverges ==
    /\ [][ClosedFrameShrinks]_vars
    /\ [](ClosedHeld => <>[]NearClosedTarget)

C13_Witness ==
    /\ handGesture = "closed"
    /\ lastOp = "animate"
    /\ time = 3 * TimeStep
    /\ FiniteTargets
    /\ positions # basePositions
    /\ \E pc \in Coords : ClosedTarget(pc) # spherePositions[pc[1]][pc[2]]
    /\ NearClosedTarget
    /\ \E pc \in Coords : positions[pc[1]][pc[2]] # ClosedTarget(pc)

OpenHeld == handGesture = "open" /\ FiniteBuffer

NearBase ==
    \A pc \in Coords :
        Abs(positions[pc[1]][pc[2]] - basePositions[pc[1]][pc[2]]) <= MorphEps

OpenFrameApproaches ==
    (OpenHeld /\ lastOp # "init") =>
        \A pc \in Coords :
            Shrinks(Abs(positions[pc[1]][pc[2]] - basePositions[pc[1]][pc[2]]),
                    Abs(positions'[pc[1]][pc[2]] - basePositions[pc[1]][pc[2]]))

\* C14: with the open gesture held and no template change, from an exploded
\* or a compressed buffer (of numbers), every frame moves each coordinate
\* toward basePositions by the blend factor and the buffer eventually stays
\* within the rounding distance of the shape of the last template change.
C14_OpenMorphReturnsToBase ==
    /\ [][OpenFrameApproaches]_vars
    /\ [](OpenHeld => <>[]NearBase)

C14_Witness ==
    /\ handGesture = "open"
    /\ lastOp = "animate"
    /\ FiniteBuffer
    /\ NearBase
    /\ basePositions = FirstBase
    /\ positions # basePositions

----------------------------------------------------------------------------
(* Properties of the position arrays *)

ReferenceArraysChange == ~UNCHANGED <<basePositions, spherePositions>>

TemplateChangeStep ==
    changeTemplate("sphere", {[i \in Particles |-> <<0, 0, 6000>>]}, {FirstSphere}, {SameDraws})

\* C15: basePositions and spherePositions change only in a template change;
\* every frame, under any gesture and with the explosion of the peace gesture,
\* leaves both as they were while it rewrites the live buffer.
C15_ReferenceArraysKept ==
    /\ [][time' # time => UNCHANGED <<basePositions, spherePositions>>]_vars
    /\ [][ReferenceArraysChange => TemplateChangeStep]_vars

C15_Witness ==
    /\ lastOp = "animate"
    /\ handGesture = "peace"
    /\ currentTemplate = "galaxy"
    /\ \A i \in Particles : positions[i] \in ExplodePoints
    /\ basePositions = FirstBase
    /\ spherePositions = FirstSphere

----------------------------------------------------------------------------
(* Properties of particle generation *)

\* C16: for every template of the registry generation leaves one position and
\* one colour per particle (3 floats each), and every colour channel of every
\* particle lies in [0, 1], whatever the random draws.
C16_GeneratedColorsInRange ==
    /\ DOMAIN positions = Particles
    /\ DOMAIN colors = Particles
    /\ \A i \in Particles :
          /\ Len(positions[i]) = 3
          /\ Len(colors[i]) = 3
          /\ \A k \in 1..3 : colors[i][k] >= 0 /\ colors[i][k] <= Unit

\* C17: no NaN ever enters the position buffer: a compressed sphere point of
\* zero length does not make the closed morph write NaN.
C17_NoNaNInBuffer ==
    \A i \in Particles : \A c \in 1..3 : ~IsNaN(positions[i][c])

----------------------------------------------------------------------------
(* Properties of the two-hand distance *)

\* the 2D distance of the wrists of a two-hand observation
WristGap(obs) ==
    LET w1 == obs.landmarks[1][0]
        w2 == obs.landmarks[2][0]
    IN  Sqrt((w1.x - w2.x) * (w1.x - w2.x) + (w1.y - w2.y) * (w1.y - w2.y))

\* (d - 0.05) / 0.65 clamped into [0, 1]
ClampedRatio(d) ==
    IF d <= MIN_DIST THEN 0
    ELSE IF d >= MAX_DIST THEN Unit
    ELSE ((d - MIN_DIST) * Unit) \div (MAX_DIST - MIN_DIST)

HandDistanceInRange == handDistance >= 0 /\ handDistance <= Unit

TwoHandDistanceStep ==
    \A obs \in TwoHandObs :
        onResults(obs) => handDistance' = ClampedRatio(WristGap(obs))

\* C18: handDistance lies in [0, 1] in every reachable state, and a two-hand
\* observation leaves it at clamp((dist - 0.05) / 0.65, 0, 1) for the wrist
\* distance dist: 0 up to 0.05, 1 from 0.7 on.
C18_HandDistanceClamped ==
    /\ []HandDistanceInRange
    /\ [][TwoHandDistanceStep]_vars

\* a two-hand observation was processed whose ratio lies strictly inside the
\* range and differs from the one-hand value
C18_Witness ==
    /\ AfterObs("two")
    /\ handDistance > 0
    /\ handDistance < Unit
    /\ handDistance # NeutralDistance

----------------------------------------------------------------------------
(* Properties of the interleaving of observations and frames *)

FrameStep == time' # time

FrameKeepsControl == FrameStep => UNCHANGED ctlVars

ControlIsLastWrite == ctlVars = ctlSeen

FrameReadsControl == AfterFrame => targetScale = ScaleTarget

\* C19: observations and frames interleave in any order; a frame writes none
\* of handGesture, gestureHistory, handDistance, targetHandPosition and the
\* roll and yaw targets, and the control values it reads are those the most
\* recently completed onResults left, with none or several observations
\* since the frame before.
C19_FramesReadLastWrite ==
    /\ [][FrameKeepsControl]_vars
    /\ []ControlIsLastWrite
    /\ []FrameReadsControl

\* a second frame right after the first, with the closed gesture that two
\* observations before the first frame left
C19_Witness ==
    /\ lastOp = "animate"
    /\ time = 2 * TimeStep
    /\ Len(gestureHistory) = 2
    /\ handGesture = "closed"
    /\ targetScale = 7000

----------------------------------------------------------------------------
(* Properties of the rotation step *)

\* the two rotations the claim names, from the state before the frame
HandRotation ==
    << rotation[1],
       Lerp(rotation[2], targetHandRotationY, rotationSmoothing),
       Lerp(rotation[3], targetHandRotationZ, rotationSmoothing) >>

AmbientRotation == << rotation[1], rotation[2] + AmbientY, rotation[3] + AmbientZ >>

RotationByHistory ==
    rotation' = IF Len(gestureHistory) > 0 THEN HandRotation ELSE AmbientRotation

EveryFrameByHistory == FrameStep => RotationByHistory

FreeFrameByHistory ==
    (FrameStep /\ ~isMouseDown /\ ~solarSystemEnabled) => RotationByHistory

\* C20 as claimed: in each frame the rotation follows one of two modes chosen
\* by the gesture history: blended toward the yaw and roll targets by 0.1 when
\* the history is non-empty, advanced by 0.0008 (y) and 0.0001 (z) otherwise.
C20_EveryFrameTwoModes == [][EveryFrameByHistory]_vars

\* C20: in each frame with the mouse button up and the solar-system view off
\* the rotation follows one of two modes chosen by the gesture history as it
\* is when the frame runs: blended toward the yaw and roll targets by 0.1
\* when it is non-empty, advanced by 0.0008 (y) and 0.0001 (z) otherwise.
C20_FreeFrameTwoModes == [][FreeFrameByHistory]_vars

\* the second frame tracked a tilted hand, after a first frame of ambient
\* rotation: the mode switched in the first frame after the hand appeared
C20_Witness ==
    /\ lastOp = "animate"
    /\ ~isMouseDown
    /\ ~solarSystemEnabled
    /\ time = 2 * TimeStep
    /\ Len(gestureHistory) > 0
    /\ targetHandRotationZ # 0
    /\ rotation = << 0,
                     Lerp(AmbientY, targetHandRotationY, rotationSmoothing),
                     Lerp(AmbientZ, targetHandRotationZ, rotationSmoothing) >>

FreeFrame == FrameStep /\ ~isMouseDown /\ ~solarSystemEnabled

RotationByGesture ==
    rotation' = IF handGesture = "neutral" THEN AmbientRotation ELSE HandRotation

FreeFrameByGesture == FreeFrame => RotationByGesture

RotationByLastObs ==
    rotation' = IF lastObs = "one" THEN HandRotation ELSE AmbientRotation

FreeFrameByLastObs == FreeFrame => RotationByLastObs

\* C21 as claimed: the rotation mode is a function of the gesture: a frame
\* whose gesture is neutral rotates ambiently, a frame whose gesture is open,
\* closed or peace tracks the hand, also after the hand left with the lock set
\* and in one-hand frames whose smoothed gesture is neutral.
C21_ModeByGesture == [][FreeFrameByGesture]_vars

\* C21: the rotation mode is a function of the last observation, not of the
\* gesture: a frame (mouse button up, solar-system view off) tracks the hand
\* when the last observation had exactly one hand, whatever the smoothed
\* gesture, and rotates ambiently otherwise, whatever gesture the lock kept.
C21_ModeByLastObservation == [][FreeFrameByLastObs]_vars

\* the first frame ran after the hand left with the lock set: the gesture is
\* still closed and the rotation is the ambient one
C21_Witness ==
    /\ lastOp = "animate"
    /\ time = TimeStep
    /\ ~isMouseDown
    /\ lastObs = "zero"
    /\ obsLock
    /\ handGesture = "closed"
    /\ targetHandRotationZ # 0
    /\ rotation = <<0, AmbientY, AmbientZ>>

----------------------------------------------------------------------------
(* Properties of the peace gesture *)

PeaceFrame == FrameStep /\ ~solarSystemEnabled /\ handGesture = "peace"

PeaceKeepsScaleTarget == (PeaceFrame /\ targetScale # 0) => targetScale' = targetScale

\* C22: while the gesture is peace the scale target is unchanged: a peace frame
\* blends the scale toward the target of the frame before it, not a new one.
C22_PeaceKeepsScaleTarget == [][PeaceKeepsScaleTarget]_vars

\* squared distance from the origin within [50, 350] world units
InShell(p) ==
    LET d2 == p[1] * p[1] + p[2] * p[2] + p[3] * p[3]
    IN  d2 >= (50 * WorldUnit) * (50 * WorldUnit) /\ d2 <= (350 * WorldUnit) * (350 * WorldUnit)

PeaceFrameExplodes == PeaceFrame => \A i \in Particles : InShell(positions'[i])

OtherFrameMorphsOnly ==
    (FrameStep /\ ~solarSystemEnabled /\ handGesture # "peace") =>
        positions' = IF handGesture = "closed" THEN MorphClosed(positions, time')
                     ELSE IF handGesture = "open" THEN MorphOpen(positions)
                     ELSE positions

----------------------------------------------------------------------------
(* Properties of frames under the neutral gesture *)

NeutralFrame == FrameStep /\ ~solarSystemEnabled /\ handGesture = "neutral"

\* the last observation turned a closed gesture into neutral after a closed
\* frame had moved the buffer off the base shape
ClosedMorphUnderWay == prevGesture = "closed" /\ positions # basePositions

NeutralContinuesMorph ==
    (NeutralFrame /\ ClosedMorphUnderWay) => positions' = MorphClosed(positions, time')

\* C24: once the closed gesture has started a morph, the blend toward its
\* target is applied in every later frame until convergence, also in frames
\* in which the gesture has become neutral.
C24_NeutralContinuesMorph == [][NeutralContinuesMorph]_vars

----------------------------------------------------------------------------
(* Properties of the core glow *)

\* C25: at every render with the solar-system view off the core glow has the
\* position and the rotation of the particle system, also after a frame that
\* moved the particle system toward a new hand position.
C25_CoreFollowsParticles ==
    AfterFrame => (corePosition = position /\ coreRotation = rotation)

----------------------------------------------------------------------------
(* Properties of observations without a usable hand count *)

\* the control state a zero-hand observation leaves, from the state before it
ZeroHandOutcome ==
    IF lockOnExit
    THEN << handDistance, handGesture, targetHandPosition, targetHandRotationZ,
            targetHandRotationY, <<>> >>
    ELSE << NeutralDistance,
            smoothGesture(gestureHistory, "neutral").result,
            [c \in 1..3 |-> Lerp(targetHandPosition[c], 0, ReturnSmoothing)],
            targetHandRotationZ, targetHandRotationY, <<>> >>

HandlessStep ==
    \A obs \in {ZeroHandObs, NoLandmarks, Observed(ThreeHands)} :
        onResults(obs) => ctlVars' = ZeroHandOutcome

\* C26: an observation with more than two hands, or with no landmark list, is
\* handled like one with zero hands: from every state and lock setting the
\* gesture, history and control signals it leaves are those a zero-hand
\* observation leaves.
C26_ManyHandsLikeZero == [][HandlessStep]_vars

\* three hands were observed with the lock off and a history in place
C26_Witness ==
    /\ AfterObs("many")
    /\ ~obsLock
    /\ prevHistLen > 0
    /\ gestureHistory = <<>>

NeutralFrameKeepsBuffer == NeutralFrame => UNCHANGED bufferVars

\* C27: a frame under the neutral gesture, with the solar-system view off,
\* leaves every entry of the position buffer as it was (and the base, sphere and
\* colour arrays with it); of the particle system it updates the transform,
\* the tint and the point size only.
C27_NeutralKeepsBuffer == [][NeutralFrameKeepsBuffer]_vars

\* a neutral frame ran on a buffer that a closed frame had moved off the base
\* shape, and left it there
C27_Witness ==
    /\ lastOp = "animate"
    /\ time = 2 * TimeStep
    /\ handGesture = "neutral"
    /\ lastObs = "two"
    /\ prevGesture = "closed"
    /\ positions # basePositions

----------------------------------------------------------------------------
(* Properties of the smoothing seen over consecutive observations *)

\* the scanned history is full and uniform but for its newest sample
LoneOutlier(g) ==
    /\ prevHistLen = gestureHistorySize
    /\ Len(scanned) = gestureHistorySize
    /\ \A k \in 1..(gestureHistorySize - 1) : scanned[k] = g
    /\ scanned[gestureHistorySize] # g

\* the three newest samples of the scanned history are g
ThreeInARow(g) ==
    /\ Len(scanned) >= 3
    /\ \A k \in (Len(scanned) - 2)..Len(scanned) : scanned[k] = g

\* C28: in one-hand mode a single raw sample that differs from an otherwise
\* uniform full history does not change the smoothed gesture; a raw gesture
\* seen in three consecutive one-hand observations is the smoothed gesture by
\* the third, whatever the history held before; and the first one-hand sample
\* after the history was cleared is returned at once.
C28_FlickerSuppression ==
    AfterObs("one") =>
        /\ \A g \in Gestures : LoneOutlier(g) => handGesture = g
        /\ \A g \in Gestures : ThreeInARow(g) => handGesture = g
        /\ prevHistLen = 0 => handGesture = detectedGesture

\* the third peace sample in a row overturned a history of open samples
C28_Witness ==
    /\ AfterObs("one")
    /\ scanned = <<"open", "open", "peace", "peace", "peace">>
    /\ prevGesture = "open"
    /\ handGesture = "peace"

----------------------------------------------------------------------------
(* Properties of a failed template change *)

FailedTemplateStep == UnknownTemplateStep /\ thrown'

FailedChangeKeepsSession ==
    FailedTemplateStep => UNCHANGED <<currentTemplate, bufferVars, inScene>>

\* C29: a changeTemplate call that fails on a key absent from the registry
\* leaves the session as it was: currentTemplate, the position, base and
\* compressed arrays and the membership of the particles in the scene are
\* unchanged.
C29_FailedChangeKeepsSession == [][FailedChangeKeepsSession]_vars

----------------------------------------------------------------------------
(* Properties of the mouse drag *)

MouseRotation ==
    << Lerp(rotation[1], targetRotationX, MouseSmoothing),
       Lerp(rotation[2], targetRotationY, MouseSmoothing),
       rotation[3] >>

HeldFrameByMouse == (FrameStep /\ isMouseDown) => rotation' = MouseRotation

ShownHeldFrameByMouse ==
    (FrameStep /\ isMouseDown /\ ~solarSystemEnabled) => rotation' = MouseRotation

\* C30 as claimed: in every frame with the mouse button held rotation x and y
\* blend toward the mouse targets and z is left alone, whatever the gesture
\* history; with the button up the mode is chosen by the history.
C30_EveryHeldFrameByMouse ==
    /\ [][HeldFrameByMouse]_vars
    /\ [][FreeFrameByHistory]_vars

\* C30: in every frame with the mouse button held and the solar-system view
\* off rotation x and y blend toward the mouse targets by 0.05 and z is left
\* alone, whatever the gesture history; from the first frame with the button
\* up the mode is again chosen by whether the history is empty.
C30_MouseOverHandOverAmbient ==
    /\ [][ShownHeldFrameByMouse]_vars
    /\ [][FreeFrameByHistory]_vars

\* a frame ran with the button held after a drag, while a tilted hand was
\* tracked: x followed the drag and z did not follow the hand
C30_Witness ==
    /\ lastOp = "animate"
    /\ isMouseDown
    /\ ~solarSystemEnabled
    /\ time = TimeStep
    /\ Len(gestureHistory) > 0
    /\ targetHandRotationZ # 0
    /\ targetRotationX # 0
    /\ rotation = <<Lerp(0, targetRotationX, MouseSmoothing),
                    Lerp(0, targetRotationY, MouseSmoothing), 0>>

====
